---- MODULE Spec2Model ----
(***************************************************************************)
(* Model of daemon/src/wallpaper_config.rs: the WallpapersConfig store,    *)
(* its loader new_from_path, the hotwatch callback armed by                *)
(* listen_to_changes and the reload try_update run by the consumer loop.   *)
(***************************************************************************)
EXTENDS Naturals, Sequences, FiniteSets, TLC

\* ------------------------------------------------------------------ bounds
\* Longest queue of file-system events not yet handed to the callback.
MaxEvents == 2
\* Most wake tokens waiting in the channel.
MaxTokens == 2
\* Swaps counted for a handle a reader holds.
MaxSwaps == 2

\* ------------------------------------------------------------ value domains
\* Option::None, for Option<PathBuf>, Option<Duration>, Option<Arc<AtomicBool>>.
None == "None"

\* Section names a configuration file may hold, and a name no file holds.
Names == {"default", "HDMI-1"}
OutputNames == Names \cup {"DP-2"}

\* The disk: one regular file, one directory, one path that does not exist.
RegularFiles == {"/img/one.png"}
Directories == {"/wallpapers"}
Paths == RegularFiles \cup Directories \cup {"/missing"}
Durations == {"300s"}

\* Path::exists and Path::is_dir.
exists(p) == p \in RegularFiles \cup Directories
is_dir(p) == p \in Directories

\* WallpaperInfo: the two fields this file reads.
WallpaperInfos == [path : Paths \cup {None}, duration : Durations \cup {None}]
\* WallpaperInfo::default().
WallpaperInfoDefault == [path |-> None, duration |-> None]

\* HashMap<String, Arc<WallpaperInfo>>: a function on a subset of Names.
DataMaps == UNION {[S -> WallpaperInfos] : S \in SUBSET Names}
EmptyData == [n \in {} |-> WallpaperInfoDefault]

\* What is at the configuration path: nothing, text toml cannot deserialize,
\* or a document with one section per output.
Files ==
    {[kind |-> "Missing", data |-> EmptyData],
     [kind |-> "Unparsable", data |-> EmptyData]}
    \cup {[kind |-> "Toml", data |-> d] : d \in DataMaps}

\* The contents the watched file is rewritten with while the daemon runs: the
\* files whose sections name the regular file, the missing path or no path.
WrittenFiles ==
    {f \in Files : \A n \in DOMAIN f.data : f.data[n].path \notin Directories}

\* The path the store is loaded from and watched at.
ConfigPath == "wallpaper.toml"
\* The one AtomicBool the caller creates.
Flag1 == "flag1"

\* Iteration orders of a HashMap: every ordering of its keys.
Orders(S) ==
    {o \in [1..Cardinality(S) -> S] : \A i, j \in 1..Cardinality(S) : o[i] = o[j] => i = j}

\* --------------------------------------------------------------- the loader
\* One pass of the loop body of new_from_path over one entry.
CheckEntry(info) ==
    IF info.path = None THEN "Panic"
    ELSE IF ~exists(info.path) THEN "NotExist"
    ELSE IF ~(info.duration = None \/ is_dir(info.path)) THEN "DurationNotDir"
    ELSE "Pass"

\* The for loop of new_from_path: the first entry, in iteration order, that
\* does not pass ends the loop.
RECURSIVE ValidateSkipsDefault(_, _, _)
ValidateSkipsDefault(d, order, i) ==
    IF i > Len(order) THEN [status |-> "Pass", name |-> None]
    ELSE LET c == IF order[i] = "default" THEN "Pass" ELSE CheckEntry(d[order[i]])
         IN  IF c # "Pass" THEN [status |-> c, name |-> order[i]]
             ELSE ValidateSkipsDefault(d, order, i + 1)

RECURSIVE Validate(_, _, _)
Validate(d, order, i) ==
    IF i > Len(order) THEN [status |-> "Pass", name |-> None]
    ELSE LET c == CheckEntry(d[order[i]])
         IN  IF c # "Pass" THEN [status |-> c, name |-> order[i]]
             ELSE Validate(d, order, i + 1)

\* The value new_from_path leaves: Ok(config), Err(report) or a panic.
Loaded(kind, error, name, d, dflt, p) ==
    [kind |-> kind, error |-> error, name |-> name, data |-> d,
     default_config |-> dflt, path |-> p, reloaded |-> None]

NoConfig == Loaded("None", None, None, EmptyData, WallpaperInfoDefault, None)

\* config_manager.data.get("default").unwrap_or(default).clone()
DefaultOfKeepsTypeDefault(d) == WallpaperInfoDefault

DefaultOf(d) == IF "default" \in DOMAIN d THEN d["default"] ELSE WallpaperInfoDefault

new_from_path(p, f, order) ==
    IF f.kind = "Missing"
    THEN Loaded("Err", "NotFound", None, EmptyData, WallpaperInfoDefault, None)
    ELSE IF f.kind = "Unparsable"
    THEN Loaded("Err", "Parse", None, EmptyData, WallpaperInfoDefault, None)
    ELSE LET v == Validate(f.data, order, 1)
         IN  IF v.status = "Pass"
             THEN Loaded("Ok", None, None, f.data, DefaultOf(f.data), p)
             ELSE IF v.status = "Panic"
             THEN Loaded("Panic", "UnwrapNone", v.name, EmptyData, WallpaperInfoDefault, None)
             ELSE Loaded("Err", v.status, v.name, EmptyData, WallpaperInfoDefault, None)

\* The outcomes new_from_path can have on a file, over every iteration order.
Loads(p, f) == {new_from_path(p, f, o) : o \in Orders(DOMAIN f.data)}

\* impl PartialEq for WallpapersConfig.
eqDerived(a, b) ==
    /\ a.data = b.data
    /\ a.default_config = b.default_config
    /\ a.path = b.path
    /\ a.reloaded = b.reloaded

eqDefaultOnly(a, b) == a.default_config = b.default_config

eq(a, b) == a.data = b.data

\* No function is being applied on its own.
NoPure == [op |-> "none"]
\* A reader that holds no handle.
NoHandle == [op |-> "none"]

\* --------------------------------------------------------------------- state
VARIABLES
    file,            \* what is at ConfigPath
    data,            \* self.data
    default_config,  \* self.default_config
    path,            \* self.path
    reloaded,        \* self.reloaded: None or the flag handle
    flag,            \* the value of the shared AtomicBool
    w_reloaded,      \* the handle the watcher closure captured
    events,          \* modify events raised and not yet handed to the callback
    chan,            \* wake tokens sent and not yet received
    rx_open,         \* the receiving side of the channel is alive
    w_pc,            \* watcher thread: unarmed, idle, stored, panicked
    c_pc,            \* consumer thread: idle, loaded, panicked, stopped
    new_config,      \* try_update's local new_config while it runs
    ret,             \* what the last try_update returned: none, true, false
    last_load,       \* how the load of the last try_update ended
    dirty,           \* the file was written since try_update last read it
    rerun,           \* the running try_update read a file unchanged since the previous read
    during,          \* a modify event handled while try_update ran: no, started, handled
    pure,            \* arguments and result of a function applied on its own
    clean,           \* queued tokens sent after the flag was last cleared (the newest ones)
    sclean,          \* queued tokens whose store came after the flag was last cleared
    w_clean,         \* the flag was not cleared since the store of the running callback
    held             \* the Arc<WallpaperInfo> a reader got from get_output_by_name

vars == <<file, data, default_config, path, reloaded, flag, w_reloaded, events,
          chan, rx_open, w_pc, c_pc, new_config, ret, last_load, dirty, rerun, during,
          pure, clean, sclean, w_clean, held>>

store == <<data, default_config, path, reloaded>>
watcher == <<w_reloaded, events, chan, w_pc, flag>>
history == <<ret, last_load, dirty, rerun, during>>
tokens == <<clean, sclean, w_clean>>

\* self as try_update compares it.
Self == [data |-> data, default_config |-> default_config, path |-> path,
         reloaded |-> reloaded]

\* get_output_by_name
get_output_by_name(name) == IF name \in DOMAIN data THEN data[name] ELSE default_config

\* Ord for PathBuf on the paths of the disk: their ascending order.
PathOrder == <<"/img/one.png", "/missing", "/wallpapers">>
PathIndex(p) == CHOOSE i \in 1..Len(PathOrder) : PathOrder[i] = p
PathLess(p, q) == PathIndex(p) < PathIndex(q)

\* self.data.values().filter_map(|info| info.path.as_ref()).collect(), the
\* values taken in the iteration order of the map.
RECURSIVE FilterMapPaths(_, _)
FilterMapPaths(order, i) ==
    IF i > Len(order) THEN <<>>
    ELSE IF data[order[i]].path = None THEN FilterMapPaths(order, i + 1)
    ELSE <<data[order[i]].path>> \o FilterMapPaths(order, i + 1)

\* paths.sort_unstable(): an insertion sort by PathLess.
RECURSIVE InsertPath(_, _)
InsertPath(p, sorted) ==
    IF sorted = <<>> THEN <<p>>
    ELSE IF PathLess(Head(sorted), p) THEN <<Head(sorted)>> \o InsertPath(p, Tail(sorted))
    ELSE <<p>> \o sorted

RECURSIVE SortPaths(_)
SortPaths(ps) == IF ps = <<>> THEN <<>> ELSE InsertPath(Head(ps), SortPaths(Tail(ps)))

\* paths.dedup(): drop every element equal to the one before it.
RECURSIVE Dedup(_)
Dedup(ps) ==
    IF Len(ps) <= 1 THEN ps
    ELSE IF ps[1] = ps[2] THEN Dedup(Tail(ps))
    ELSE <<ps[1]>> \o Dedup(Tail(ps))

\* paths
pathsNoSort(order) == Dedup(FilterMapPaths(order, 1))

pathsNoDedup(order) == SortPaths(FilterMapPaths(order, 1))

paths(order) == Dedup(SortPaths(FilterMapPaths(order, 1)))

\* ---------------------------------------------------------------------- Init
\* The store right after a successful new_from_path(ConfigPath).
Init ==
    /\ file \in {f \in WrittenFiles : \A l \in Loads(ConfigPath, f) : l.kind = "Ok"}
    /\ \E l \in Loads(ConfigPath, file) :
          /\ data = l.data
          /\ default_config = l.default_config
          /\ path = l.path
          /\ reloaded = l.reloaded
    /\ flag = FALSE
    /\ w_reloaded = None
    /\ events = 0
    /\ chan = 0
    /\ rx_open = TRUE
    /\ w_pc = "unarmed"
    /\ c_pc = "idle"
    /\ new_config = NoConfig
    /\ ret = "none"
    /\ last_load = "None"
    /\ dirty = FALSE
    /\ rerun = FALSE
    /\ during = "no"
    /\ clean = 0
    /\ sclean = 0
    /\ w_clean = FALSE
    /\ held = NoHandle
    /\ pure = NoPure

\* ------------------------------------------------------------ the main thread
\* The caller stores the flag it created in the public field `reloaded`.
SetReloaded ==
    /\ UNCHANGED pure
    /\ UNCHANGED held
    /\ UNCHANGED tokens
    /\ c_pc = "idle"
    /\ reloaded = None
    /\ reloaded' = Flag1
    /\ UNCHANGED <<file, data, default_config, path, rx_open, c_pc, new_config>>
    /\ UNCHANGED watcher
    /\ UNCHANGED history

\* listen_to_changes: unwrap the handle, clone it into the closure, register
\* the watch on self.path.
ListenToChanges ==
    /\ UNCHANGED pure
    /\ UNCHANGED held
    /\ UNCHANGED tokens
    /\ c_pc = "idle"
    /\ w_pc = "unarmed"
    /\ IF reloaded = None
       THEN /\ c_pc' = "panicked"
            /\ rx_open' = FALSE
            /\ UNCHANGED <<w_reloaded, w_pc>>
       ELSE /\ w_reloaded' = reloaded
            /\ w_pc' = "idle"
            /\ UNCHANGED <<c_pc, rx_open>>
    /\ UNCHANGED <<file, new_config, events, chan, flag>>
    /\ UNCHANGED store
    /\ UNCHANGED history

\* ------------------------------------------------------------ the file system
\* Something rewrites the watched file; the watch raises a modify event.
WriteFile(f) ==
    /\ UNCHANGED pure
    /\ UNCHANGED held
    /\ UNCHANGED tokens
    /\ w_pc # "unarmed"
    /\ f # file
    /\ events < MaxEvents
    /\ file' = f
    /\ events' = events + 1
    /\ dirty' = TRUE
    /\ UNCHANGED <<w_reloaded, chan, w_pc, flag, rx_open, c_pc, new_config,
                   ret, last_load, rerun, during>>
    /\ UNCHANGED store

\* ---------------------------------------------------------- the watcher thread
\* The closure called with an event that is no Modify: the if let does not
\* match and the closure returns.
WatcherCallbackOtherTriggers ==
    /\ w_pc = "idle"
    /\ rx_open
    /\ chan < MaxTokens
    /\ flag' = TRUE
    /\ chan' = chan + 1
    /\ clean' = clean + 1
    /\ sclean' = sclean + 1
    /\ UNCHANGED <<file, w_reloaded, events, rx_open, w_pc, c_pc, new_config,
                   pure, w_clean, held>>
    /\ UNCHANGED store
    /\ UNCHANGED history

WatcherCallbackOther ==
    /\ w_pc = "idle"
    /\ UNCHANGED vars

\* The closure called with a Modify event, up to and including
\* reloaded.store(true, Relaxed), a write through the captured handle.
WatcherCallbackReloadsStore ==
    /\ UNCHANGED pure
    /\ UNCHANGED held
    /\ w_clean' = TRUE
    /\ UNCHANGED <<clean, sclean>>
    /\ w_pc = "idle"
    /\ events > 0
    /\ chan < MaxTokens
    /\ events' = events - 1
    /\ flag' = TRUE
    /\ w_pc' = "stored"
    /\ during' = IF c_pc = "loaded" /\ during = "no" THEN "started" ELSE during
    /\ data' = file.data
    /\ default_config' = DefaultOf(file.data)
    /\ UNCHANGED <<file, w_reloaded, chan, rx_open, c_pc, new_config,
                   ret, last_load, dirty, rerun, path, reloaded>>

WatcherCallbackSkipsStore ==
    /\ UNCHANGED pure
    /\ UNCHANGED held
    /\ w_clean' = TRUE
    /\ UNCHANGED <<clean, sclean>>
    /\ w_pc = "idle"
    /\ events > 0
    /\ chan < MaxTokens
    /\ events' = events - 1
    /\ flag' = flag
    /\ w_pc' = "stored"
    /\ during' = IF c_pc = "loaded" /\ during = "no" THEN "started" ELSE during
    /\ UNCHANGED <<file, w_reloaded, chan, rx_open, c_pc, new_config,
                   ret, last_load, dirty, rerun>>
    /\ UNCHANGED store

WatcherCallback ==
    /\ UNCHANGED pure
    /\ UNCHANGED held
    /\ w_clean' = TRUE
    /\ UNCHANGED <<clean, sclean>>
    /\ w_pc = "idle"
    /\ events > 0
    /\ chan < MaxTokens
    /\ events' = events - 1
    /\ flag' = TRUE
    /\ w_pc' = "stored"
    /\ during' = IF c_pc = "loaded" /\ during = "no" THEN "started" ELSE during
    /\ UNCHANGED <<file, w_reloaded, chan, rx_open, c_pc, new_config,
                   ret, last_load, dirty, rerun>>
    /\ UNCHANGED store

\* ev_tx.send(()).unwrap(): the token is queued, or the unwrap panics when
\* the receiver is gone.
WatcherSend ==
    /\ UNCHANGED pure
    /\ UNCHANGED held
    /\ w_clean' = FALSE
    /\ clean' = IF rx_open THEN clean + 1 ELSE clean
    /\ sclean' = IF rx_open /\ w_clean THEN sclean + 1 ELSE sclean
    /\ w_pc = "stored"
    /\ IF rx_open
       THEN /\ chan' = chan + 1
            /\ w_pc' = "idle"
            /\ during' = IF c_pc = "loaded" /\ during = "started" THEN "handled" ELSE during
       ELSE /\ w_pc' = "panicked"
            /\ UNCHANGED <<chan, during>>
    /\ UNCHANGED <<file, w_reloaded, events, flag, rx_open, c_pc, new_config,
                   ret, last_load, dirty, rerun>>
    /\ UNCHANGED store

\* --------------------------------------------------------- the consumer thread
\* The loop takes one token and calls try_update, which runs
\* new_from_path(&self.path); a panic inside it unwinds the consumer.
TryUpdateRead ==
    /\ UNCHANGED pure
    /\ UNCHANGED held
    /\ UNCHANGED w_clean
    /\ c_pc = "idle"
    /\ rx_open
    /\ chan > 0
    /\ chan' = chan - 1
    /\ \E l \in Loads(path, file) :
          /\ last_load' = l.kind
          /\ IF l.kind = "Panic"
             THEN /\ c_pc' = "panicked"
                  /\ rx_open' = FALSE
                  /\ new_config' = NoConfig
                  /\ clean' = 0
                  /\ sclean' = 0
             ELSE /\ c_pc' = "loaded"
                  /\ new_config' = l
                  /\ UNCHANGED rx_open
                  /\ clean' = IF clean = chan THEN clean - 1 ELSE clean
                  /\ sclean' = IF sclean = chan THEN sclean - 1 ELSE sclean
    /\ dirty' = FALSE
    /\ rerun' = (~dirty /\ last_load # "None")
    /\ during' = "no"
    /\ UNCHANGED <<file, w_reloaded, events, w_pc, flag, ret>>
    /\ UNCHANGED store

\* *self = new_config for a reader: the old map and its Arcs are dropped, the
\* allocation behind an Arc the reader cloned stays as it is; the handle
\* counts the swaps it has outlived.
AfterSwapInPlace(h) ==
    IF h.op = "handle"
    THEN [h EXCEPT !.value = IF h.name \in DOMAIN new_config.data
                             THEN new_config.data[h.name]
                             ELSE new_config.default_config,
                   !.swaps = IF @ < MaxSwaps THEN @ + 1 ELSE @]
    ELSE h

AfterSwap(h) ==
    IF h.op = "handle"
    THEN [h EXCEPT !.swaps = IF @ < MaxSwaps THEN @ + 1 ELSE @]
    ELSE h

\* Ok(new_config) if new_config != *self: keep the handle, replace *self,
\* put the handle back, return true.
SwapArmKeepsOldDefault ==
    /\ data' = new_config.data
    /\ default_config' = default_config
    /\ path' = new_config.path
    /\ reloaded' = reloaded
    /\ ret' = "true"
    /\ UNCHANGED flag

SwapArmDropsHandle ==
    /\ data' = new_config.data
    /\ default_config' = new_config.default_config
    /\ path' = new_config.path
    /\ reloaded' = new_config.reloaded
    /\ ret' = "true"
    /\ UNCHANGED flag

SwapArmClearsFlag ==
    /\ data' = new_config.data
    /\ default_config' = new_config.default_config
    /\ path' = new_config.path
    /\ reloaded' = reloaded
    /\ ret' = "true"
    /\ flag' = FALSE

SwapArm ==
    /\ data' = new_config.data
    /\ default_config' = new_config.default_config
    /\ path' = new_config.path
    /\ reloaded' = reloaded
    /\ ret' = "true"
    /\ UNCHANGED flag

\* Ok(_): the new config equals the loaded one, return false.
NoopArmClearsFlag ==
    /\ ret' = "false"
    /\ flag' = FALSE
    /\ UNCHANGED store

NoopArm ==
    /\ ret' = "false"
    /\ UNCHANGED flag
    /\ UNCHANGED store

\* Err(err): log it, return false.
ErrArmDiscardsSnapshot ==
    /\ data' = EmptyData
    /\ default_config' = WallpaperInfoDefault
    /\ ret' = "false"
    /\ UNCHANGED <<path, reloaded, flag>>

ErrArm ==
    /\ ret' = "false"
    /\ UNCHANGED flag
    /\ UNCHANGED store

\* The match of try_update and its return.
TryUpdateMatch ==
    /\ UNCHANGED pure
    /\ UNCHANGED tokens
    /\ c_pc = "loaded"
    /\ new_config' = NoConfig
    /\ during' = IF during = "handled" THEN "handled" ELSE "no"
    /\ IF new_config.kind = "Ok" /\ ~eq(new_config, Self)
       THEN IF reloaded = None
            THEN /\ c_pc' = "panicked"
                 /\ rx_open' = FALSE
                 /\ UNCHANGED <<ret, flag, held>>
                 /\ UNCHANGED store
            ELSE /\ SwapArm
                 /\ held' = AfterSwap(held)
                 /\ c_pc' = "idle"
                 /\ UNCHANGED rx_open
       ELSE /\ IF new_config.kind = "Ok" THEN NoopArm ELSE ErrArm
            /\ UNCHANGED held
            /\ c_pc' = "idle"
            /\ UNCHANGED rx_open
    /\ UNCHANGED <<file, w_reloaded, events, chan, w_pc, last_load, dirty, rerun>>

\* The consumer reads the pending flag and clears it between two reloads.
ClearFlag ==
    /\ UNCHANGED pure
    /\ UNCHANGED held
    /\ clean' = 0
    /\ sclean' = 0
    /\ w_clean' = FALSE
    /\ c_pc = "idle"
    /\ flag
    /\ flag' = FALSE
    /\ UNCHANGED <<file, w_reloaded, events, chan, w_pc, rx_open, c_pc, new_config>>
    /\ UNCHANGED store
    /\ UNCHANGED history

\* The consumer loop ends and drops the receiving side of the channel.
DropReceiver ==
    /\ UNCHANGED pure
    /\ UNCHANGED held
    /\ clean' = 0
    /\ sclean' = 0
    /\ UNCHANGED w_clean
    /\ c_pc = "idle"
    /\ rx_open
    /\ rx_open' = FALSE
    /\ c_pc' = "stopped"
    /\ UNCHANGED <<file, w_reloaded, events, chan, w_pc, flag, new_config>>
    /\ UNCHANGED store
    /\ UNCHANGED history

Next ==
    \/ SetReloaded
    \/ ListenToChanges
    \/ \E f \in WrittenFiles : WriteFile(f)
    \/ WatcherCallbackOther
    \/ WatcherCallback
    \/ WatcherSend
    \/ TryUpdateRead
    \/ TryUpdateMatch
    \/ ClearFlag
    \/ DropReceiver

Spec == Init /\ [][Next]_vars

\* ------------------------------------------------------- a reader of the store
\* A reader calls get_output_by_name between two reloads and keeps the clone
\* of the Arc it returns.
Resolve(name) ==
    /\ c_pc = "idle"
    /\ held' = [op |-> "handle", name |-> name, value |-> get_output_by_name(name),
                swaps |-> 0]
    /\ UNCHANGED <<file, flag, rx_open, c_pc, new_config, pure>>
    /\ UNCHANGED store
    /\ UNCHANGED watcher
    /\ UNCHANGED history
    /\ UNCHANGED tokens

\* The contents the file is rewritten with while a reader holds a handle.
ReaderFiles ==
    {[kind |-> "Unparsable", data |-> EmptyData],
     [kind |-> "Toml", data |-> EmptyData],
     [kind |-> "Toml", data |-> [n \in {"default"} |->
                                   [path |-> "/wallpapers", duration |-> "300s"]]],
     [kind |-> "Toml", data |-> [n \in Names |->
                                   IF n = "default"
                                   THEN [path |-> "/img/one.png", duration |-> None]
                                   ELSE [path |-> "/wallpapers", duration |-> None]]],
     [kind |-> "Toml", data |-> [n \in {"HDMI-1"} |->
                                   [path |-> "/missing", duration |-> None]]]}

ReaderNext ==
    \/ SetReloaded
    \/ ListenToChanges
    \/ \E f \in ReaderFiles : WriteFile(f)
    \/ WatcherCallbackOther
    \/ WatcherCallback
    \/ WatcherSend
    \/ TryUpdateRead
    \/ TryUpdateMatch
    \/ ClearFlag
    \/ DropReceiver
    \/ \E name \in OutputNames : Resolve(name)

ReaderSpec == Init /\ [][ReaderNext]_vars

\* ------------------------------------------------- the loader on its own
\* new_from_path applied once to each file of Files, in each iteration order.
LoadInit ==
    /\ file \in Files
    /\ data = EmptyData
    /\ default_config = WallpaperInfoDefault
    /\ path = ConfigPath
    /\ reloaded = None
    /\ flag = FALSE
    /\ w_reloaded = None
    /\ events = 0
    /\ chan = 0
    /\ rx_open = TRUE
    /\ w_pc = "unarmed"
    /\ c_pc = "idle"
    /\ new_config = NoConfig
    /\ ret = "none"
    /\ last_load = "None"
    /\ dirty = FALSE
    /\ rerun = FALSE
    /\ during = "no"
    /\ clean = 0
    /\ sclean = 0
    /\ w_clean = FALSE
    /\ held = NoHandle
    /\ pure = NoPure

LoadStep ==
    /\ UNCHANGED pure
    /\ UNCHANGED held
    /\ UNCHANGED tokens
    /\ new_config.kind = "None"
    /\ \E o \in Orders(DOMAIN file.data) :
          /\ new_config' = new_from_path(path, file, o)
          /\ last_load' = new_config'.kind
    /\ UNCHANGED <<file, rx_open, c_pc, ret, dirty, rerun, during>>
    /\ UNCHANGED store
    /\ UNCHANGED watcher

LoadNext == LoadStep

LoadSpec == LoadInit /\ [][LoadNext]_vars

\* ----------------------------------------------------- paths on its own
\* The maps paths is applied to: up to three entries over the paths of the disk.
PathsData == UNION {[S -> WallpaperInfos] : S \in SUBSET OutputNames}

PathsInit ==
    /\ data \in PathsData
    /\ file = [kind |-> "Toml", data |-> EmptyData]
    /\ default_config = DefaultOf(data)
    /\ path = ConfigPath
    /\ reloaded = None
    /\ flag = FALSE
    /\ w_reloaded = None
    /\ events = 0
    /\ chan = 0
    /\ rx_open = TRUE
    /\ w_pc = "unarmed"
    /\ c_pc = "idle"
    /\ new_config = NoConfig
    /\ ret = "none"
    /\ last_load = "None"
    /\ dirty = FALSE
    /\ rerun = FALSE
    /\ during = "no"
    /\ clean = 0
    /\ sclean = 0
    /\ w_clean = FALSE
    /\ held = NoHandle
    /\ pure = NoPure

PathsStep ==
    /\ UNCHANGED tokens
    /\ UNCHANGED held
    /\ pure.op = "none"
    /\ \E o \in Orders(DOMAIN data) : pure' = [op |-> "paths", out |-> paths(o)]
    /\ UNCHANGED <<file, rx_open, c_pc, new_config>>
    /\ UNCHANGED store
    /\ UNCHANGED watcher
    /\ UNCHANGED history

PathsNext == PathsStep

PathsSpec == PathsInit /\ [][PathsNext]_vars

\* -------------------------------------------------------- eq on its own
\* The stores eq is applied to: entries, default entry, source path and
\* handle (absent, or one of two flags) and the value of its flag all vary.
EqData ==
    {d \in DataMaps : /\ DOMAIN d \subseteq {"default"}
                       /\ \A n \in DOMAIN d : d[n].duration = None /\ ~exists(d[n].path)}
EqStores ==
    [data : EqData,
     default_config : {WallpaperInfoDefault, [path |-> "/missing", duration |-> None]},
     path : {ConfigPath, "other.toml"},
     reloaded : {None, Flag1, "flag2"},
     flagged : BOOLEAN]

EqInit ==
    /\ pure \in [op : {"args"}, a : EqStores, b : EqStores, c : EqStores]
    /\ file = [kind |-> "Toml", data |-> EmptyData]
    /\ data = EmptyData
    /\ default_config = WallpaperInfoDefault
    /\ path = ConfigPath
    /\ reloaded = None
    /\ flag = FALSE
    /\ w_reloaded = None
    /\ events = 0
    /\ chan = 0
    /\ rx_open = TRUE
    /\ w_pc = "unarmed"
    /\ c_pc = "idle"
    /\ new_config = NoConfig
    /\ ret = "none"
    /\ last_load = "None"
    /\ dirty = FALSE
    /\ rerun = FALSE
    /\ during = "no"
    /\ clean = 0
    /\ sclean = 0
    /\ w_clean = FALSE
    /\ held = NoHandle

EqStep ==
    /\ UNCHANGED tokens
    /\ UNCHANGED held
    /\ pure.op = "args"
    /\ pure' = [op |-> "eq", a |-> pure.a, b |-> pure.b, c |-> pure.c,
                aa |-> eq(pure.a, pure.a), ab |-> eq(pure.a, pure.b),
                ba |-> eq(pure.b, pure.a), bc |-> eq(pure.b, pure.c),
                ac |-> eq(pure.a, pure.c)]
    /\ UNCHANGED <<file, rx_open, c_pc, new_config>>
    /\ UNCHANGED store
    /\ UNCHANGED watcher
    /\ UNCHANGED history

EqNext == EqStep

EqSpec == EqInit /\ [][EqNext]_vars

\* ------------------------------------------------------------------ claims
\* The step in which the running try_update returns to the consumer loop.
Returns == c_pc = "loaded" /\ c_pc' = "idle"

\* The file can be loaded: new_from_path succeeds on it.
Valid(f) == \A l \in Loads(ConfigPath, f) : l.kind = "Ok"

\* C1: when the load inside try_update fails (the file is missing or
\* unparsable, or an entry names a path that does not exist, or pairs a
\* duration with a path that is no directory), try_update returns false and
\* the entries and the default entry of the store are what they were.
C1_FailedLoadKeepsSnapshot ==
    [][(c_pc = "loaded" /\ c_pc' # "loaded" /\ new_config.kind = "Err")
        => /\ c_pc' = "idle"
           /\ ret' = "false"
           /\ data' = data
           /\ default_config' = default_config]_vars

C1_Witness ==
    /\ c_pc = "idle"
    /\ ret = "false"
    /\ last_load = "Err"
    /\ ~dirty
    /\ file.kind = "Unparsable"
    /\ DOMAIN data # {}

\* Nothing is in flight: no event pending, no token queued, both threads idle.
Quiescent ==
    /\ w_pc = "idle"
    /\ events = 0
    /\ chan = 0
    /\ c_pc = "idle"
    /\ rx_open

\* C2: once the watcher has handled every modify event, the consumer has
\* drained every token and the file is left in a valid state, the entries of
\* the store are the entries a fresh new_from_path of the file produces.
C2_EventualConvergence ==
    (Quiescent /\ Valid(file)) => \A l \in Loads(path, file) : data = l.data

C2_Witness ==
    /\ Quiescent
    /\ Valid(file)
    /\ ret = "false"
    /\ last_load = "Ok"
    /\ rerun
    /\ DOMAIN data = Names

\* C3: a modify event the watcher handles after the running try_update has
\* read the file and before it returns is not lost: when that try_update
\* returns the flag is true and the token of the event is in the channel.
C3_ChangeDuringReloadNotLost ==
    [][(c_pc = "loaded" /\ c_pc' # "loaded" /\ during = "handled")
        => (flag' /\ chan' >= 1 /\ rx_open')]_vars

C3_Witness ==
    /\ c_pc = "idle"
    /\ during = "handled"
    /\ ret = "true"
    /\ flag
    /\ chan >= 1

\* C4: a failed send of the wake token is swallowed: the watcher thread never
\* panics, whatever the state of the receiving side.
C4_SendFailureSwallowed == w_pc # "panicked"

\* C5: when the loaded entries equal the entries of the store, try_update
\* returns false and leaves entries and default entry alone; and a try_update
\* that reads a file unchanged since the previous try_update read it returns
\* false.
C5_NoOpReload ==
    [][Returns =>
        /\ (new_config.kind = "Ok" /\ new_config.data = data)
              => (ret' = "false" /\ data' = data /\ default_config' = default_config)
        /\ rerun => (ret' = "false" /\ data' = data /\ default_config' = default_config)]_vars

C5_Witness ==
    /\ c_pc = "idle"
    /\ rerun
    /\ ret = "false"
    /\ last_load = "Ok"
    /\ ~dirty
    /\ data = file.data
    /\ DOMAIN data # {}

\* C6: try_update returns true exactly when the load succeeds with entries
\* that differ from those of the store, and then the entries and the default
\* entry of the store are those of the loaded snapshot.
C6_TrueIffChangedAndFullSwap ==
    [][Returns =>
        /\ (ret' = "true") <=> (new_config.kind = "Ok" /\ new_config.data # data)
        /\ (ret' = "true") =>
              /\ data' = new_config.data
              /\ default_config' = new_config.default_config]_vars

C6_Witness ==
    /\ c_pc = "idle"
    /\ ret = "true"
    /\ ~dirty
    /\ data = file.data
    /\ DOMAIN data = Names
    /\ default_config = data["default"]

\* C7: once the watcher is armed, the handle the store holds is the flag the
\* watcher closure writes, after any sequence of try_update calls.
C7_HandleSurvivesReload ==
    w_pc # "unarmed" => (reloaded = Flag1 /\ reloaded = w_reloaded)

C7_Witness ==
    /\ c_pc = "idle"
    /\ ret = "true"
    /\ w_pc = "stored"
    /\ flag
    /\ reloaded = w_reloaded
    /\ reloaded # None

\* C8: in every state of the store, get_output_by_name returns the entry of
\* a name the entries hold, and for any other name the entry named "default"
\* when there is one, else the settings with no path and no duration.
C8_ResolveDefaultFallback ==
    \A n \in OutputNames :
        /\ get_output_by_name(n) \in WallpaperInfos
        /\ n \in DOMAIN data => get_output_by_name(n) = data[n]
        /\ n \notin DOMAIN data =>
              get_output_by_name(n) =
                 IF "default" \in DOMAIN data THEN data["default"]
                 ELSE [path |-> None, duration |-> None]

C8_Witness ==
    /\ c_pc = "idle"
    /\ ret = "true"
    /\ DOMAIN data = {"default"}
    /\ get_output_by_name("HDMI-1") = data["default"]
    /\ get_output_by_name("HDMI-1").path # None

\* Some entry of the file names a path that is not on disk.
HasMissingPath(f) ==
    \E n \in DOMAIN f.data : f.data[n].path # None /\ ~exists(f.data[n].path)

\* C9: new_from_path fails, and yields no snapshot, on every configuration
\* holding an entry whose path does not exist, whatever its other entries
\* and the order of the visit, and on a missing configuration file.
C9_ValidationTotality ==
    (new_config.kind # "None" /\ (file.kind = "Missing" \/ HasMissingPath(file)))
        => new_config.kind = "Err"

\* Some entry of the file pairs a duration with a regular file.
HasDurationOnFile(f) ==
    \E n \in DOMAIN f.data :
        f.data[n].duration # None /\ f.data[n].path \in RegularFiles

\* C10: new_from_path fails with a validation error on every configuration
\* holding an entry with a duration and a path that is a regular file, and
\* an entry with a duration and a path that is a directory passes the check.
C10_DurationNeedsDirectory ==
    /\ (new_config.kind # "None" /\ HasDurationOnFile(file))
          => (new_config.kind = "Err" /\ new_config.error \in {"NotExist", "DurationNotDir"})
    /\ \A i \in WallpaperInfos :
          (i.duration # None /\ i.path \in Directories) => CheckEntry(i) = "Pass"

\* C11: the path of an entry is optional: new_from_path handles a file with
\* an entry that has no path without aborting, and a try_update that meets
\* such a file returns to the consumer loop.
C11_OptionalPathNoAbort == last_load # "Panic"

\* C14: the store holds its handle from construction on, so that
\* listen_to_changes, whenever it is called after construction, finds the
\* handle and does not abort.
C14_HandleFromConstruction ==
    /\ ~(w_pc = "unarmed" /\ c_pc = "panicked")
    /\ (c_pc = "panicked" => last_load = "Panic")

\* C17: no step of the watcher thread changes the entries, the default entry
\* or the source path of the store, and the entries and the default entry
\* change only in the step in which try_update returns.
C17_WatcherLeavesStoreAlone ==
    [][/\ (w_pc' # w_pc \/ events' < events \/ chan' > chan)
            => (data' = data /\ default_config' = default_config /\ path' = path)
       /\ (data' # data \/ default_config' # default_config)
            => (Returns /\ ret' = "true")]_vars

C17_Witness ==
    /\ w_pc = "idle"
    /\ flag
    /\ chan = 1
    /\ dirty
    /\ ret = "none"
    /\ Valid(file)
    /\ data # file.data

\* C19 as stated: a configuration whose "default" entry has a path that does
\* not pass the checks, and whose other entries all pass them, loads, with
\* that entry installed as the default.
OnlyDefaultFails(f) ==
    /\ f.kind = "Toml"
    /\ "default" \in DOMAIN f.data
    /\ CheckEntry(f.data["default"]) \in {"NotExist", "DurationNotDir"}
    /\ \A n \in DOMAIN f.data \ {"default"} : CheckEntry(f.data[n]) = "Pass"

C19_DefaultEntryUnchecked ==
    (new_config.kind # "None" /\ OnlyDefaultFails(file))
        => (new_config.kind = "Ok" /\ new_config.default_config = file.data["default"])

\* C19 amended: the checks apply to every entry, the one named "default"
\* included: such a configuration does not load, and new_from_path returns
\* the error of the "default" entry.
C19_DefaultEntryChecked ==
    (new_config.kind # "None" /\ OnlyDefaultFails(file))
        => /\ new_config.kind = "Err"
           /\ new_config.name = "default"
           /\ new_config.error = CheckEntry(file.data["default"])

C19_Witness ==
    /\ OnlyDefaultFails(file)
    /\ DOMAIN file.data = Names
    /\ new_config.kind = "Err"
    /\ new_config.name = "default"

\* C20: try_update never clears the flag: neither its read nor its return
\* changes the flag, and a flag that is true becomes false only in a step
\* of the consumer outside try_update.
C20_TryUpdateNeverClearsFlag ==
    [][/\ (chan' < chan \/ (c_pc = "loaded" /\ c_pc' # "loaded")) => flag' = flag
       /\ (flag /\ ~flag') => (c_pc = "idle" /\ c_pc' = "idle" /\ chan' = chan)]_vars

C20_Witness ==
    /\ c_pc = "idle"
    /\ flag
    /\ ret = "false"
    /\ last_load = "Ok"
    /\ chan = 0
    /\ events = 0
    /\ w_pc = "idle"

\* C12: two stores are equal exactly when their entries are equal, whatever
\* their source paths, handles and default entries; the relation is
\* reflexive, symmetric and transitive.
C12_EqualityByEntriesAlone ==
    pure.op = "eq" =>
        /\ pure.ab <=> (pure.a.data = pure.b.data)
        /\ pure.aa
        /\ pure.ab <=> pure.ba
        /\ (pure.ab /\ pure.bc) => pure.ac

C12_Witness ==
    /\ pure.op = "eq"
    /\ pure.ab
    /\ pure.a.data # EmptyData
    /\ pure.a.path # pure.b.path
    /\ pure.a.default_config # pure.b.default_config
    /\ pure.a.reloaded = None
    /\ pure.b.reloaded = Flag1
    /\ pure.c.reloaded = "flag2"
    /\ pure.b.flagged # pure.c.flagged
    /\ ~pure.ac

\* C13: paths returns the paths present in the entries as a strictly
\* ascending sequence: each present path once, no other path, nothing for an
\* entry without a path, whatever the iteration order of the map.
C13_PathsSortedDistinct ==
    pure.op = "paths" =>
        /\ \A i \in 1..Len(pure.out) - 1 : PathLess(pure.out[i], pure.out[i + 1])
        /\ {pure.out[i] : i \in 1..Len(pure.out)}
              = {data[n].path : n \in DOMAIN data} \ {None}

C13_Witness ==
    /\ pure.op = "paths"
    /\ DOMAIN data = OutputNames
    /\ data["default"].path = "/wallpapers"
    /\ data["HDMI-1"].path = "/img/one.png"
    /\ data["DP-2"].path = "/wallpapers"
    /\ pure.out = <<"/img/one.png", "/wallpapers">>


\* C15: a callback called with an event that is no Modify changes neither the
\* flag nor the channel; a callback called with a Modify takes one event,
\* stores true in the flag and goes on to the send; a send that completes
\* adds exactly one token; and the flag is set and a token is added by no
\* step but these.
C15_OnlyModifyTriggers ==
    [][/\ WatcherCallbackOther => (flag' = flag /\ chan' = chan)
       /\ (events' < events)
            => (events' = events - 1 /\ flag' /\ w_pc' = "stored" /\ chan' = chan)
       /\ (w_pc = "stored" /\ w_pc' = "idle") => chan' = chan + 1
       /\ (chan' > chan) => (w_pc = "stored" /\ chan' = chan + 1)
       /\ (~flag /\ flag') => (events' < events)]_vars

C15_Witness ==
    /\ w_pc = "idle"
    /\ rx_open
    /\ flag
    /\ chan = 2
    /\ events = 0
    /\ c_pc = "idle"
    /\ ret = "none"

\* C16 as stated: a queued token is received with the flag true whenever the
\* flag was not cleared since that token was sent.
C16_FlagTrueUnlessClearedAfterSend ==
    (rx_open /\ c_pc = "idle" /\ chan > 0 /\ clean = chan) => flag

\* C16: the watcher stores true before it sends, a store on a true flag
\* leaves it true, and a queued token is received with the flag true
\* whenever the flag was not cleared since the store that preceded that
\* token's send.
C16_FlagTrueUnlessClearedAfterStore ==
    /\ (w_pc = "stored" /\ w_clean) => flag
    /\ (rx_open /\ c_pc = "idle" /\ chan > 0 /\ sclean = chan) => flag

C16_Witness ==
    /\ rx_open
    /\ c_pc = "idle"
    /\ w_pc = "idle"
    /\ chan = 2
    /\ sclean = 2
    /\ flag
    /\ ret # "none"


\* C18: a handle a reader got from get_output_by_name denotes the settings it
\* denoted when it was taken after every later step, the swaps of try_update
\* included, however many there are; it is a whole entry the store held, and
\* the entry the store resolves the name to for as long as no swap came.
C18_HandleKeepsValue ==
    [][/\ (held.op = "handle" /\ ~(\E name \in OutputNames : Resolve(name)))
            => (/\ held'.op = "handle"
                /\ held'.name = held.name
                /\ held'.value = held.value)
       /\ held'.op = "handle"
            => (/\ held'.value \in WallpaperInfos
                /\ held'.swaps = 0
                     => held'.value = IF held'.name \in DOMAIN data'
                                      THEN data'[held'.name]
                                      ELSE default_config')]_vars

C18_Witness ==
    /\ held.op = "handle"
    /\ held.swaps = 2
    /\ held.value # get_output_by_name(held.name)
    /\ held.value.path # None
    /\ ret = "true"

====
